---- MODULE Spec2Model ----
(***************************************************************************)
(* A model of spark_config (src/src/spark_config/config.py): the           *)
(* ConfigTypeParser leaf converters, Config.dump / Config.update,          *)
(* ConfigFactory and VirtualConfig, exercised on the schemas declared in   *)
(* src/tests/test_config.py.                                               *)
(*                                                                         *)
(* Python values are tagged records.  A float is held in tenths (5.5 is    *)
(* F(55)), a dict as a sequence of <<key, value>> pairs in insertion       *)
(* order, a dataclass instance as [k, cls, f] with f its fields, and a     *)
(* VirtualConfig as [k, category, required, type, config].                 *)
(***************************************************************************)
EXTENDS Integers, Sequences, FiniteSets, TLC

VARIABLES
    factories,      \* ConfigFactory._factories: category -> (name -> class)
    lookup,         \* ConfigFactory._lookup: class -> <<category, name>>
    constructors,   \* ConfigFactory._constructors: category -> (class -> constructor)
    obj,            \* the object the caller holds: a Config or a VirtualConfig
    op,             \* the call made last, with its arguments
    pre,            \* obj as it was when that call started
    ret,            \* what the call returned (None when it raised)
    exc,            \* the exception the call raised, "none" when it returned
    log,            \* the records Logger emitted during the call
    registered,     \* the ConfigFactory.register calls made so far, in order
    discarded       \* the configs a VirtualConfig held when its last two type
                    \* changes replaced them, the latest first

vars ==
    <<factories, lookup, constructors, obj, op, pre, ret, exc, log, registered,
      discarded>>

(***************************************************************************)
(* Bounds of the model.                                                    *)
(***************************************************************************)
\* integer literals -MaxNum..MaxNum are the numeric strings int() / float() accept
MaxNum == 20
\* the longest sequence given for a config-list field
MaxElems == 2
\* the number of ConfigFactory.register calls a run of SpecRegistry makes
MaxRegister == 2

(***************************************************************************)
(* Python values.                                                          *)
(***************************************************************************)
None == [k |-> "none"]
I(n) == [k |-> "int", v |-> n]
F(t) == [k |-> "float", v |-> t]
S(s) == [k |-> "str", v |-> s]
L(q) == [k |-> "list", v |-> q]
D(q) == [k |-> "dict", v |-> q]
Instance(cls, f) == [k |-> "obj", cls |-> cls, f |-> f]

Keys(d) == {d.v[i][1] : i \in 1..Len(d.v)}
\* key in d
DictHas(d, key) == key \in Keys(d)
\* d[key]
DictGet(d, key) == d.v[CHOOSE i \in 1..Len(d.v) : d.v[i][1] = key][2]
\* d[key] = val: an existing key keeps its position, a new one is appended
DictSet(d, key, val) ==
    IF DictHas(d, key)
    THEN D([i \in 1..Len(d.v) |-> IF d.v[i][1] = key THEN <<key, val>> ELSE d.v[i]])
    ELSE D(Append(d.v, <<key, val>>))

\* bool(x) for the values the code tests for truth
Truthy(x) ==
    CASE x.k = "none" -> FALSE
      [] x.k = "int" -> x.v # 0
      [] x.k = "float" -> x.v # 0
      [] x.k = "str" -> x.v # ""
      [] x.k \in {"list", "dict"} -> Len(x.v) > 0
      [] OTHER -> TRUE

\* A Logger record: level, the message's fixed text, and the place it names.
Diag(level, msg, at) == [level |-> level, msg |-> msg, at |-> at]

(***************************************************************************)
(* str(), int() and float() of the builtin values.                         *)
(***************************************************************************)
Digit(d) == <<"0", "1", "2", "3", "4", "5", "6", "7", "8", "9">>[d + 1]

RECURSIVE NatStr(_)
NatStr(n) == IF n < 10 THEN Digit(n) ELSE NatStr(n \div 10) \o Digit(n % 10)

Abs(n) == IF n < 0 THEN -n ELSE n
IntStr(n) == IF n < 0 THEN "-" \o NatStr(-n) ELSE NatStr(n)
FloatStr(t) ==
    (IF t < 0 THEN "-" ELSE "") \o NatStr(Abs(t) \div 10) \o "." \o Digit(Abs(t) % 10)

\* str(x); the repr of a non-empty container is not spelled out
PyStr(x) ==
    CASE x.k = "none" -> "None"
      [] x.k = "int" -> IntStr(x.v)
      [] x.k = "float" -> FloatStr(x.v)
      [] x.k = "str" -> x.v
      [] x.k = "list" -> IF Len(x.v) = 0 THEN "[]" ELSE "[...]"
      [] x.k = "dict" -> IF Len(x.v) = 0 THEN "{}" ELSE "{...}"
      [] OTHER -> "<object>"

IntLiterals == (-MaxNum)..MaxNum
FloatLiterals == (-10 * MaxNum)..(10 * MaxNum)
\* the literals, written out
IntText == [n \in IntLiterals |-> IntStr(n)]
FloatText == [t \in FloatLiterals |-> FloatStr(t)]

Ok(v) == [ok |-> TRUE, v |-> v]
Fail(e) == [ok |-> FALSE, v |-> None, e |-> e]

\* int(x): truncates a float, parses an integer literal, fails on the rest
PyInt(x) ==
    CASE x.k = "int" -> Ok(x)
      [] x.k = "float" -> Ok(I(IF x.v < 0 THEN -((-x.v) \div 10) ELSE x.v \div 10))
      [] x.k = "str" ->
            IF \E n \in IntLiterals : IntText[n] = x.v
            THEN Ok(I(CHOOSE n \in IntLiterals : IntText[n] = x.v))
            ELSE Fail("ValueError")
      [] OTHER -> Fail("TypeError")

\* float(x): widens an int, parses an integer or decimal literal
PyFloat(x) ==
    CASE x.k = "int" -> Ok(F(10 * x.v))
      [] x.k = "float" -> Ok(x)
      [] x.k = "str" ->
            IF \E n \in IntLiterals : IntText[n] = x.v
            THEN Ok(F(10 * (CHOOSE n \in IntLiterals : IntText[n] = x.v)))
            ELSE IF \E t \in FloatLiterals : FloatText[t] = x.v
            THEN Ok(F(CHOOSE t \in FloatLiterals : FloatText[t] = x.v))
            ELSE Fail("ValueError")
      [] OTHER -> Fail("TypeError")

\* int(math.floor(float(x))), the yaml_converter of FloorConfig.foo
FloorConverter(x) ==
    LET fl == PyFloat(x) IN IF fl.ok THEN Ok(I(fl.v.v \div 10)) ELSE fl

(***************************************************************************)
(* ConfigTypeParser: the converters registered at import, and parse.       *)
(***************************************************************************)
ParserRegistry == {"int", "float", "str"}

IntParser(value, strict) == IF strict THEN PyInt(value) ELSE Ok(value)
FloatParser(value, strict) == IF strict THEN PyFloat(value) ELSE Ok(value)
StrParser(value, strict) == IF strict THEN Ok(S(PyStr(value))) ELSE Ok(value)

ConfigTypeParserParse(field_type, value, strict) ==
    IF field_type.t \notin ParserRegistry THEN Ok(value)
    ELSE CASE field_type.t = "int" -> IntParser(value, strict)
           [] field_type.t = "float" -> FloatParser(value, strict)
           [] field_type.t = "str" -> StrParser(value, strict)

(***************************************************************************)
(* The schemas.  Those of src/tests/test_config.py, and three a caller may *)
(* declare on top of them: ParentList, a config list whose elements hold a *)
(* VirtualConfig, Tagged, a registered config with a field named `type`,   *)
(* and InvalidListSibling, an InvalidList with a field next to the list.   *)
(***************************************************************************)
T(t, arg) == [t |-> t, arg |-> arg]
Value(v) == [d |-> "value", v |-> v, cls |-> ""]
Factory(cls) == [d |-> "factory", v |-> None, cls |-> cls]
Missing == [d |-> "missing", v |-> None, cls |-> ""]

\* dataclasses.field: name, declared type, metadata and default
Field(name, type, default) ==
    [name |-> name, type |-> type, virtual_config |-> FALSE,
     yaml_converter |-> FALSE, default |-> default]

\* VirtualConfig.__init__
VirtualConfig(category, default, required) ==
    [k |-> "vc", category |-> category, required |-> required,
     type |-> default, config |-> None]

\* config_field: a field whose default factory makes a VirtualConfig
ConfigField(name, category, default, required) ==
    [name |-> name, type |-> T("any", ""), virtual_config |-> TRUE,
     yaml_converter |-> FALSE,
     default |-> Value(VirtualConfig(category, default, required))]

Classes ==
    {"OmniConfig", "FloorConfig", "InvalidConfig", "InvalidList", "Foo", "Bar",
     "Parent", "NestedConfig", "ListConfig", "DictConfig", "CustomConfig",
     "ParentList", "Tagged", "InvalidListSibling"}

\* the declarations of a class: its fields in declaration order
Declared(cls) ==
    CASE cls = "OmniConfig" -> <<Field("foo", T("any", ""), Value(None))>>
      [] cls = "FloorConfig" ->
            <<[Field("foo", T("int", ""), Value(I(0))) EXCEPT !.yaml_converter = TRUE]>>
      [] cls = "InvalidConfig" -> <<Field("foo", T("int", ""), Missing)>>
      [] cls = "InvalidList" ->
            <<Field("children", T("list", "InvalidConfig"), Value(L(<<>>)))>>
      [] cls = "Foo" ->
            <<Field("a", T("float", ""), Value(F(50))),
              Field("b", T("int", ""), Value(I(2))),
              Field("c", T("str", ""), Value(S("hello")))>>
      [] cls = "Bar" ->
            <<Field("bar", T("str", ""), Value(S("world"))),
              Field("d", T("int", ""), Value(I(15)))>>
      [] cls = "Parent" ->
            <<ConfigField("child", "test", S("foo"), TRUE),
              Field("param", T("float", ""), Value(F(-10)))>>
      [] cls = "NestedConfig" ->
            <<Field("foo", T("config", "Foo"), Factory("Foo")),
              Field("other", T("str", ""), Value(S("world")))>>
      [] cls = "ListConfig" ->
            <<Field("children", T("list", "Foo"), Value(L(<<>>)))>>
      [] cls = "DictConfig" ->
            <<Field("children", T("dict", "Foo"), Value(D(<<>>)))>>
      [] cls = "CustomConfig" -> <<Field("foo", T("float", ""), Value(F(5)))>>
      [] cls = "ParentList" ->
            <<Field("children", T("list", "Parent"), Value(L(<<>>)))>>
      [] cls = "Tagged" ->
            <<Field("type", T("str", ""), Value(S("plain"))),
              Field("n", T("int", ""), Value(I(1)))>>
      [] cls = "InvalidListSibling" ->
            <<Field("children", T("list", "InvalidConfig"), Value(L(<<>>))),
              Field("other", T("str", ""), Value(S("world")))>>

Schema == [cls \in Classes |-> Declared(cls)]

\* dataclasses.fields(cls)
Fields(cls) == Schema[cls]

FieldNames(cls) == {Fields(cls)[i].name : i \in 1..Len(Fields(cls))}
FieldOf(cls, name) ==
    Fields(cls)[CHOOSE i \in 1..Len(Fields(cls)) : Fields(cls)[i].name = name]

\* cls() raises TypeError when a field has neither a default nor a factory
RECURSIVE HasDefaults(_)
HasDefaults(cls) ==
    \A i \in 1..Len(Fields(cls)) :
        LET dflt == Fields(cls)[i].default
        IN  /\ dflt.d # "missing"
            /\ dflt.d = "factory" => HasDefaults(dflt.cls)

\* the instance cls() makes: every field at its default
RECURSIVE Defaults(_)
Defaults(cls) ==
    Instance(cls,
        [name \in FieldNames(cls) |->
            LET dflt == FieldOf(cls, name).default
            IN  IF dflt.d = "factory" THEN Defaults(dflt.cls) ELSE dflt.v])

ConstructibleClasses == {cls \in Classes : HasDefaults(cls)}
DefaultInstance == [cls \in Classes |-> Defaults(cls)]

Constructible(cls) == cls \in ConstructibleClasses
\* cls()
New(cls) == DefaultInstance[cls]

(***************************************************************************)
(* Python's ==.                                                            *)
(***************************************************************************)
IsNum(x) == x.k \in {"int", "float"}
Tenths(x) == IF x.k = "int" THEN 10 * x.v ELSE x.v

\* a == b: numbers by value, containers element-wise, dataclass instances by
\* class and fields; a VirtualConfig compares as the config it holds
\* (VirtualConfig.__eq__), on either side of the comparison.
RECURSIVE PyEq(_, _)
PyEq(a, b) ==
    CASE a.k = "vc" -> IF a.config.k # "none" THEN PyEq(a.config, b) ELSE FALSE
      [] a.k # "vc" /\ b.k = "vc" ->
            IF b.config.k # "none" THEN PyEq(b.config, a) ELSE FALSE
      [] IsNum(a) /\ IsNum(b) -> Tenths(a) = Tenths(b)
      [] a.k = "none" /\ b.k = "none" -> TRUE
      [] a.k = "str" /\ b.k = "str" -> a.v = b.v
      [] a.k = "list" /\ b.k = "list" ->
            /\ Len(a.v) = Len(b.v)
            /\ \A i \in 1..Len(a.v) : PyEq(a.v[i], b.v[i])
      [] a.k = "dict" /\ b.k = "dict" ->
            /\ Keys(a) = Keys(b)
            /\ \A key \in Keys(a) : PyEq(DictGet(a, key), DictGet(b, key))
      [] a.k = "obj" /\ b.k = "obj" ->
            /\ a.cls = b.cls
            /\ \A name \in DOMAIN a.f : PyEq(a.f[name], b.f[name])
      [] OTHER -> FALSE

(***************************************************************************)
(* ConfigFactory.                                                          *)
(***************************************************************************)
\* what a method leaves behind: the object it ran on, what it returned, the
\* Logger records it emitted and the exception it raised ("none": returned)
Out(self, v, lg, e) == [self |-> self, v |-> v, log |-> lg, exc |-> e]

\* a statement after a call: the call is made once and `rest` goes on from
\* what it left
With(done, rest(_)) == CHOOSE after \in {rest(d) : d \in {done}} : TRUE

\* name in instance._factories[category], for a name read from a document
Registered(category, name) ==
    /\ category \in DOMAIN factories
    /\ name.k = "str"
    /\ name.v \in DOMAIN factories[category]

\* create that raises for what is not registered
ConfigFactoryCreateRaises(category, name) ==
    IF ~Registered(category, name) THEN Out(None, None, <<>>, "KeyError")
    ELSE LET cls == factories[category][name.v]
         IN  IF Constructible(cls) THEN Out(None, New(cls), <<>>, "none")
             ELSE Out(None, None, <<>>, "TypeError")

\* ConfigFactory.create(category, name)
ConfigFactoryCreate(category, name) ==
    IF category \notin DOMAIN factories
    THEN Out(None, None, <<Diag("warning", "No configs registered", category)>>, "none")
    ELSE IF ~Registered(category, name)
    THEN Out(None, None, <<Diag("error", "not registered", category)>>, "none")
    ELSE LET cls == factories[category][name.v]
         IN  IF Constructible(cls) THEN Out(None, New(cls), <<>>, "none")
             ELSE Out(None, None, <<>>, "TypeError")

\* ConfigFactory.get_info(cls_instance)
GetInfo(cls_instance) ==
    IF cls_instance.k = "obj" /\ cls_instance.cls \in DOMAIN lookup
    THEN lookup[cls_instance.cls] ELSE <<>>

\* ConfigFactory.get_constructor(category, name)
GetConstructor(category, name) ==
    IF ~Registered(category, name) THEN Out(None, None, <<>>, "none")
    ELSE LET typename == factories[category][name.v]
         IN  IF /\ category \in DOMAIN constructors
                /\ typename \in DOMAIN constructors[category]
             THEN Out(None, S(constructors[category][typename]), <<>>, "none")
             ELSE Out(None, None, <<>>, "KeyError")

(***************************************************************************)
(* Config.update and VirtualConfig.update.                                 *)
(***************************************************************************)
RECURSIVE ConfigUpdate(_, _, _, _, _)
RECURSIVE VirtualConfigUpdate(_, _, _, _, _)
RECURSIVE UpdateField(_, _, _, _, _, _)
RECURSIVE UpdateFields(_, _, _, _, _, _)
RECURSIVE ParseElements(_, _, _, _, _, _, _)

\* _sequence_iter(yaml_field): the items of a list, the values of a dict,
\* nothing for anything else
SequenceIter(yaml_field) ==
    CASE yaml_field.k = "list" -> yaml_field.v
      [] yaml_field.k = "dict" -> [i \in 1..Len(yaml_field.v) |-> yaml_field.v[i][2]]
      [] OTHER -> <<>>

\* _is_config_list(list_type): typing.get_args(list_type)[0] is a Config
\* class; a type without arguments has no [0]
IsConfigList(list_type) ==
    CASE list_type.t = "list" -> "yes"
      [] list_type.t = "dict" -> "no"
      [] OTHER -> "IndexError"

IndexStr(idx) == "[" \o NatStr(idx) \o "]"

\* _create that does not ask for a type
VirtualCreateUnvalidated(self, typename, validate) ==
    LET name == IF Truthy(typename) THEN typename ELSE self.type
        made == ConfigFactoryCreate(self.category, name)
    IN  IF made.exc # "none" THEN Out(self, None, made.log, made.exc)
        ELSE Out([self EXCEPT !.config = made.v, !.type = name], None, made.log, "none")

\* _create that keeps the config it already holds and only renames it
VirtualCreateKeepsConfig(self, typename, validate) ==
    LET name == IF Truthy(typename) THEN typename ELSE self.type
    IN  IF name.k = "none" /\ self.required /\ validate
        THEN Out(self, None, <<>>, "ValueError")
        ELSE LET made == ConfigFactoryCreate(self.category, name)
             IN  IF made.exc # "none" THEN Out(self, None, made.log, made.exc)
                 ELSE Out([self EXCEPT !.config = IF Truthy(@) THEN @ ELSE made.v,
                                       !.type = name],
                          None, made.log, "none")

\* VirtualConfig._create(typename, validate)
VirtualCreate(self, typename, validate) ==
    LET name == IF Truthy(typename) THEN typename ELSE self.type
    IN  IF name.k = "none" /\ self.required /\ validate
        THEN Out(self, None, <<>>, "ValueError")
        ELSE LET made == ConfigFactoryCreate(self.category, name)
             IN  IF made.exc # "none" THEN Out(self, None, made.log, made.exc)
                 ELSE Out([self EXCEPT !.config = made.v, !.type = name],
                          None, made.log, "none")

\* _parse_yaml_leaf that stores the raw value when the conversion fails
ParseYamlLeafStoresRaw(self, field, field_config, global_name, strict) ==
    LET value == IF field.yaml_converter THEN FloorConverter(field_config)
                 ELSE IF strict THEN ConfigTypeParserParse(field.type, field_config, strict)
                 ELSE Ok(field_config)
    IN  IF value.ok
        THEN Out([self EXCEPT !.f[field.name] = value.v], None, <<>>, "none")
        ELSE Out([self EXCEPT !.f[field.name] = field_config], None,
                 <<Diag("error", "Skipping invalid YAML", global_name)>>, "none")

\* Config._parse_yaml_leaf
ParseYamlLeaf(self, field, field_config, global_name, strict) ==
    LET value == IF field.yaml_converter THEN FloorConverter(field_config)
                 ELSE IF strict THEN ConfigTypeParserParse(field.type, field_config, strict)
                 ELSE Ok(field_config)
    IN  IF value.ok
        THEN Out([self EXCEPT !.f[field.name] = value.v], None, <<>>, "none")
        ELSE Out(self, None, <<Diag("error", "Skipping invalid YAML", global_name)>>, "none")

\* a loop that lets the exception of the element's constructor out
ParseElementsRaises(st, field, items, idx, global_name, strict, warn_missing) ==
    IF idx > Len(items) THEN st
    ELSE IF ~Constructible(field.type.arg) THEN [st EXCEPT !.exc = "TypeError"]
    ELSE With(ConfigUpdate(New(field.type.arg), items[idx], strict, warn_missing,
                           global_name \o IndexStr(idx - 1)),
              LAMBDA sub :
                IF sub.exc # "none"
                THEN [st EXCEPT !.log = @ \o sub.log, !.exc = sub.exc]
                ELSE ParseElements(
                        [st EXCEPT !.log = @ \o sub.log, !.v = L(Append(@.v, sub.self))],
                        field, items, idx + 1, global_name, strict, warn_missing))

\* the loop of Config._parse_yaml_list from element idx on: st.v is `parsed`
ParseElements(st, field, items, idx, global_name, strict, warn_missing) ==
    IF idx > Len(items) THEN st
    ELSE IF ~Constructible(field.type.arg)
    THEN [st EXCEPT !.log = Append(@, Diag("error", "Could not init", global_name))]
    ELSE LET curr_name == global_name \o IndexStr(idx - 1)
         IN  With(ConfigUpdate(New(field.type.arg), items[idx], strict,
                               warn_missing, curr_name),
                  LAMBDA sub :
                    IF sub.exc # "none"
                    THEN [st EXCEPT !.log = @ \o sub.log, !.exc = sub.exc]
                    ELSE ParseElements(
                            [st EXCEPT !.log = @ \o sub.log,
                                       !.v = L(Append(@.v, sub.self))],
                            field, items, idx + 1, global_name, strict, warn_missing))

\* _parse_yaml_list that appends to the list the field holds
ParseYamlListExtends(self, field, field_config, global_name, strict, warn_missing) ==
    With(ParseElements(Out(self, self.f[field.name], <<>>, "none"), field,
                       SequenceIter(field_config), 1, global_name,
                       strict, warn_missing),
         LAMBDA st :
            IF st.exc # "none" THEN Out(self, None, st.log, st.exc)
            ELSE Out([self EXCEPT !.f[field.name] = st.v], None, st.log, "none"))

\* Config._parse_yaml_list
ParseYamlList(self, field, field_config, global_name, strict, warn_missing) ==
    With(ParseElements(Out(self, L(<<>>), <<>>, "none"), field,
                       SequenceIter(field_config), 1, global_name,
                       strict, warn_missing),
         LAMBDA st :
            IF st.exc # "none" THEN Out(self, None, st.log, st.exc)
            ELSE Out([self EXCEPT !.f[field.name] = st.v], None, st.log, "none"))

\* VirtualConfig.update
VirtualConfigUpdate(self, config_data, strict, warn_missing, parent) ==
    IF config_data.k \notin {"none", "dict"} THEN Out(self, None, <<>>, "ValueError")
    ELSE IF config_data.k = "none" THEN Out(self, None, <<>>, "AttributeError")
    ELSE
    LET typename == IF DictHas(config_data, "type") THEN DictGet(config_data, "type")
                    ELSE self.type
        lg == IF typename.k = "none" /\ self.required
              THEN <<Diag("error", "Could not get type", parent)>> ELSE <<>>
        type_changed == typename.k # "none" /\ ~PyEq(self.type, typename)
    IN  With(IF ~Truthy(self.config) \/ type_changed
             THEN VirtualCreate(self, typename, TRUE)
             ELSE Out(self, None, <<>>, "none"),
             LAMBDA made :
                IF made.exc # "none" THEN Out(made.self, None, lg \o made.log, made.exc)
                ELSE IF made.self.config.k # "none" /\ Len(config_data.v) # 0
                THEN With(ConfigUpdate(made.self.config, config_data, strict,
                                       warn_missing, parent),
                          LAMBDA sub :
                            Out([made.self EXCEPT !.config = sub.self],
                                [made.self EXCEPT !.config = sub.self],
                                lg \o made.log \o sub.log, sub.exc))
                ELSE Out(made.self, made.self, lg \o made.log, "none"))

\* the body of the loop of Config.update for one field
UpdateField(st, field, config, strict, warn_missing, parent) ==
    LET self == st.self
        global_name == IF parent # "" THEN parent \o "/" \o field.name
                       ELSE field.name
        prev == self.f[field.name]
        field_config == DictGet(config, field.name)
        done ==
            IF prev.k = "obj" \/ field.virtual_config
            THEN With(CASE prev.k = "obj" ->
                             ConfigUpdate(prev, field_config, strict,
                                          warn_missing, global_name)
                        [] prev.k = "vc" ->
                             VirtualConfigUpdate(prev, field_config, strict,
                                                 warn_missing, global_name)
                        [] OTHER -> Out(prev, None, <<>>, "AttributeError"),
                      LAMBDA sub :
                        Out([self EXCEPT !.f[field.name] = sub.self], None,
                            sub.log, sub.exc))
            ELSE IF prev.k = "list" /\ IsConfigList(field.type) = "IndexError"
            THEN Out(self, None, <<>>, "IndexError")
            ELSE IF prev.k = "list" /\ IsConfigList(field.type) = "yes"
            THEN ParseYamlList(self, field, field_config, global_name, strict,
                               warn_missing)
            ELSE ParseYamlLeaf(self, field, field_config, global_name, strict)
    IN  IF ~DictHas(config, field.name)
        THEN IF warn_missing
             THEN [st EXCEPT !.log = Append(@, Diag("warning", "Missing", global_name))]
             ELSE st
        ELSE With(done, LAMBDA d : Out(d.self, None, st.log \o d.log, d.exc))

\* the loop of Config.update from field i on; an exception ends it
UpdateFields(st, i, config, strict, warn_missing, parent) ==
    IF i > Len(Fields(st.self.cls)) \/ st.exc # "none" THEN st
    ELSE With(UpdateField(st, Fields(st.self.cls)[i], config, strict, warn_missing,
                          parent),
              LAMBDA next :
                UpdateFields(next, i + 1, config, strict, warn_missing, parent))

\* update that starts from the defaults of the class
ConfigUpdateFromDefaults(self, config, strict, warn_missing, parent) ==
    IF config.k # "dict"
    THEN Out(self, None, <<Diag("error", "Invalid config data", parent)>>, "none")
    ELSE With(Out(New(self.cls), None, <<>>, "none"),
              LAMBDA st : UpdateFields(st, 1, config, strict, warn_missing, parent))

\* update that rejects what is no dict the way VirtualConfig.update does
ConfigUpdateRejects(self, config, strict, warn_missing, parent) ==
    IF config.k # "dict"
    THEN Out(self, None, <<>>, "ValueError")
    ELSE With(Out(self, None, <<>>, "none"),
              LAMBDA st : UpdateFields(st, 1, config, strict, warn_missing, parent))

\* Config.update
ConfigUpdate(self, config, strict, warn_missing, parent) ==
    IF config.k # "dict"
    THEN Out(self, None, <<Diag("error", "Invalid config data", parent)>>, "none")
    ELSE With(Out(self, None, <<>>, "none"),
              LAMBDA st : UpdateFields(st, 1, config, strict, warn_missing, parent))

(***************************************************************************)
(* Config.dump and VirtualConfig.dump.                                     *)
(***************************************************************************)
RECURSIVE AsDict(_)
RECURSIVE ConfigDump(_, _)
RECURSIVE VirtualConfigDump(_)
RECURSIVE DumpFields(_, _)

\* __deepcopy__ that leaves the type of the copy unset
VirtualConfigDeepCopyUntyped(self) ==
    LET new_config == VirtualConfig(self.category, None, self.required)
    IN  IF Truthy(self.config) THEN [new_config EXCEPT !.config = self.config]
        ELSE new_config

\* VirtualConfig.__deepcopy__
VirtualConfigDeepCopy(self) ==
    LET new_config == [VirtualConfig(self.category, None, self.required)
                            EXCEPT !.type = self.type]
    IN  IF Truthy(self.config) THEN [new_config EXCEPT !.config = self.config]
        ELSE new_config

\* dataclasses.asdict: dataclass instances become dicts, lists and dicts are
\* rebuilt, anything else (a VirtualConfig too) is deep-copied as it is
AsDict(x) ==
    CASE x.k = "obj" ->
            D([i \in 1..Len(Fields(x.cls)) |->
                <<Fields(x.cls)[i].name, AsDict(x.f[Fields(x.cls)[i].name])>>])
      [] x.k = "list" -> L([i \in 1..Len(x.v) |-> AsDict(x.v[i])])
      [] x.k = "dict" -> D([i \in 1..Len(x.v) |-> <<x.v[i][1], AsDict(x.v[i][2])>>])
      [] x.k = "vc" -> VirtualConfigDeepCopy(x)
      [] OTHER -> x

\* the loop of Config.dump from field i on: st.v is `values`
DumpFields(st, i) ==
    IF i > Len(Fields(st.self.cls)) \/ st.exc # "none" THEN st
    ELSE
    LET field == Fields(st.self.cls)[i]
        field_value == st.self.f[field.name]
    IN  IF field.virtual_config \/ field_value.k = "obj"
        THEN With(IF field.virtual_config
                  THEN CASE field_value.k = "vc" -> VirtualConfigDump(field_value)
                         [] field_value.k = "obj" -> ConfigDump(field_value, TRUE)
                         [] OTHER -> Out(field_value, None, <<>>, "AttributeError")
                  ELSE ConfigDump(field_value, FALSE),
                  LAMBDA sub :
                    With(Out([st.self EXCEPT !.f[field.name] = sub.self],
                             IF sub.exc = "none"
                             THEN DictSet(st.v, field.name, sub.v) ELSE st.v,
                             st.log \o sub.log, sub.exc),
                         LAMBDA next : DumpFields(next, i + 1)))
        ELSE DumpFields(st, i + 1)

\* Config.dump(add_type)
ConfigDump(self, add_type) ==
    LET values == AsDict(self)
        info == GetInfo(self)
    IN  With(Out(self,
                 IF add_type /\ info # <<>> THEN DictSet(values, "type", S(info[2]))
                 ELSE values,
                 <<>>, "none"),
             LAMBDA st : DumpFields(st, 1))

\* VirtualConfig.dump
VirtualConfigDump(self) ==
    With(IF ~Truthy(self.config) THEN VirtualCreate(self, None, FALSE)
         ELSE Out(self, None, <<>>, "none"),
         LAMBDA made :
            IF made.exc # "none" \/ ~Truthy(made.self.config)
            THEN Out(made.self, None, made.log, made.exc)
            ELSE With(ConfigDump(made.self.config, FALSE),
                      LAMBDA sub :
                        Out([made.self EXCEPT !.config = sub.self],
                            IF sub.exc = "none"
                            THEN DictSet(sub.v, "type", made.self.type) ELSE None,
                            made.log \o sub.log, sub.exc)))

\* yaml.safe_dump represents the builtin scalars, lists and dicts only
RECURSIVE Representable(_)
Representable(x) ==
    CASE x.k \in {"none", "int", "float", "str"} -> TRUE
      [] x.k = "list" -> \A i \in 1..Len(x.v) : Representable(x.v[i])
      [] x.k = "dict" -> \A i \in 1..Len(x.v) : Representable(x.v[i][2])
      [] OTHER -> FALSE

\* Config.load(cls, filepath, strict, warn_missing) on a file holding `document`
ConfigLoad(cls, document, strict, warn_missing) ==
    IF ~Constructible(cls) THEN Out(None, None, <<>>, "TypeError")
    ELSE With(ConfigUpdate(New(cls), document, strict, warn_missing, ""),
              LAMBDA done :
                Out(None, IF done.exc = "none" THEN done.self ELSE None, done.log,
                    done.exc))

(***************************************************************************)
(* VirtualConfig.create and VirtualConfig.__getattr__.                     *)
(***************************************************************************)
\* constructor(self._config, *args): the constructor is the caller's
\* function; its result is kept as the call made
Constructed(constructor, config, args) ==
    [k |-> "call", fn |-> constructor.v, config |-> config, args |-> args]

\* VirtualConfig.create(*args)
VirtualConfigCreate(self, args) ==
    LET name == self.type
        constructor == GetConstructor(self.category, name)
    IN  IF constructor.exc # "none" THEN Out(self, None, <<>>, constructor.exc)
        ELSE IF constructor.v.k = "none"
        THEN IF ~self.required
             THEN Out(self, None,
                      <<Diag("warning", "Constructor not specified", self.category)>>,
                      "none")
             ELSE Out(self, None, <<>>, "ValueError")
        ELSE LET made == IF ~Truthy(self.config) THEN VirtualCreate(self, None, TRUE)
                         ELSE Out(self, None, <<>>, "none")
             IN  IF made.exc # "none" THEN Out(made.self, None, made.log, made.exc)
                 ELSE Out(made.self,
                          Constructed(constructor.v, made.self.config, args),
                          made.log, "none")

\* VirtualConfig.__getattr__(name), for a name that is no attribute of the
\* VirtualConfig itself
VirtualConfigGetAttr(self, name) ==
    LET made == IF ~Truthy(self.config) THEN VirtualCreate(self, None, TRUE)
                ELSE Out(self, None, <<>>, "none")
    IN  IF made.exc # "none" THEN Out(made.self, None, made.log, made.exc)
        ELSE IF made.self.config.k = "none"
        THEN Out(made.self, None, made.log, "ValueError")
        ELSE IF name \notin DOMAIN made.self.config.f
        THEN Out(made.self, None, made.log, "AttributeError")
        ELSE Out(made.self, made.self.config.f[name], made.log, "none")

(***************************************************************************)
(* ConfigFactory.register, on the registry as a value.                     *)
(***************************************************************************)
Empty == [x \in {} |-> None]
Registry(f, l, c) == [factories |-> f, lookup |-> l, constructors |-> c]
Put(fn, key, val) == [x \in DOMAIN fn \cup {key} |-> IF x = key THEN val ELSE fn[x]]

\* a call register(config_type, category, name, constructor)
Call(config_type, category, name, constructor) ==
    [config_type |-> config_type, category |-> category, name |-> name,
     constructor |-> constructor]

\* ConfigFactory.register
Register(reg, call) ==
    LET name == IF Truthy(call.name) THEN call.name.v ELSE call.config_type
        in_category == IF call.category \in DOMAIN reg.factories
                       THEN reg.factories[call.category] ELSE Empty
        ctors == IF call.category \in DOMAIN reg.constructors
                 THEN reg.constructors[call.category] ELSE Empty
    IN  Registry(
            Put(reg.factories, call.category, Put(in_category, name, call.config_type)),
            Put(reg.lookup, call.config_type, <<call.category, name>>),
            IF Truthy(call.constructor)
            THEN Put(reg.constructors, call.category,
                     Put(ctors, call.config_type, call.constructor.v))
            ELSE reg.constructors)

RECURSIVE RegisterAll(_, _)
RegisterAll(reg, calls) ==
    IF calls = <<>> THEN reg ELSE RegisterAll(Register(reg, Head(calls)), Tail(calls))

\* the register_config decorators of the schemas, in declaration order
Decorators ==
    <<Call("Foo", "test", S("foo"), None),
      Call("Bar", "test", S("bar"), None),
      Call("CustomConfig", "test", S("custom"), S("FloorConverter.from_config")),
      Call("Tagged", "test", S("tagged"), None)>>

(***************************************************************************)
(* The documents and objects the calls are made with.                      *)
(***************************************************************************)
\* the dicts that give each name of `choices` one of its values, or leave it out
RECURSIVE DictsOver(_)
DictsOver(choices) ==
    IF choices = <<>> THEN {<<>>}
    ELSE LET rest == DictsOver(Tail(choices))
         IN  rest \cup {<<<<Head(choices)[1], v>>>> \o r : v \in Head(choices)[2], r \in rest}

Dicts(choices) == {D(q) : q \in DictsOver(choices)}

\* sequences of at most n members of set
SeqsUpTo(set, n) == UNION {[1..m -> set] : m \in 0..n}

\* <<strict, warn_missing>> as the calls give them
Modes == {<<TRUE, FALSE>>, <<FALSE, FALSE>>, <<TRUE, TRUE>>}

NonMappings == {None, F(50), L(<<>>)}

\* sub-trees for a VirtualConfig of category "test"
SlotDocuments ==
    Dicts(<<<<"type", {S("foo"), S("bar"), S("tagged"), S("nope")}>>, <<"b", {I(1)}>>>>)
        \cup Dicts(<<<<"type", {S("bar")}>>, <<"d", {I(3), S("2.0")}>>>>)
        \cup {None, F(50)}

\* what update is called with on a VirtualConfig the caller holds
SlotCallDocuments == SlotDocuments \cup {D(<<<<"foo", F(55)>>>>), L(<<>>)}

\* documents that move a VirtualConfig of category "test" between types
SwitchDocuments ==
    Dicts(<<<<"type", {S("foo"), S("bar"), S("tagged")}>>, <<"b", {I(1)}>>,
            <<"d", {I(3)}>>>>)

\* sub-trees for a Foo
FooDocuments == Dicts(<<<<"a", {I(1), S("x")}>>>>) \cup {I(5)}

\* the documents update is called with, by the class of the instance
OmniDocuments == Dicts(<<<<"foo", {I(5), F(55), S("5.5")}>>>>)
FloorDocuments == Dicts(<<<<"foo", {S("5.5"), F(-15), S("x")}>>>>)
InvalidListDocuments ==
    Dicts(<<<<"children", {L(<<>>), L(<<D(<<<<"foo", I(1)>>>>)>>)}>>>>)
InvalidListSiblingDocuments ==
    Dicts(<<<<"children", {L(<<>>), L(<<D(<<<<"foo", I(1)>>>>)>>),
                           D(<<<<"one", D(<<>>)>>, <<"two", D(<<>>)>>>>)}>>,
            <<"other", {S("hello!")}>>>>)
BarDocuments ==
    Dicts(<<<<"bar", {S("test"), I(5)}>>, <<"d", {I(1), S("2.0"), F(27), None}>>>>)
ParentDocuments == Dicts(<<<<"child", SlotDocuments>>, <<"param", {F(-20)}>>>>)
NestedDocuments ==
    Dicts(<<<<"foo", FooDocuments>>, <<"other", {S("hello!")}>>, <<"unknown", {I(0)}>>>>)
ListDocuments ==
    Dicts(<<<<"children",
              {L(q) : q \in SeqsUpTo({D(<<>>), D(<<<<"a", F(10)>>>>)}, MaxElems)}
                \cup {L(<<I(5)>>),
                      D(<<<<"child_a", D(<<<<"b", S("3")>>>>)>>, <<"child_b", D(<<>>)>>>>),
                      D(<<>>), I(5), None}>>>>)
DictDocuments ==
    Dicts(<<<<"children",
              {D(<<>>), D(<<<<"one", D(<<<<"a", I(1)>>>>)>>>>),
               D(<<<<"four", D(<<<<"a", F(100)>>>>)>>, <<"five", D(<<>>)>>>>)}>>>>)
ParentListDocuments ==
    Dicts(<<<<"children",
              {L(q) : q \in SeqsUpTo({D(<<>>), D(<<<<"child", D(<<<<"b", I(7)>>>>)>>>>)},
                                     MaxElems)}
                \cup {L(<<D(<<<<"child", D(<<<<"b", I(7)>>>>)>>>>),
                        D(<<<<"child", F(50)>>>>)>>)}>>>>)

Documents(cls) ==
    NonMappings \cup
    CASE cls = "OmniConfig" -> OmniDocuments
      [] cls = "FloorConfig" -> FloorDocuments
      [] cls = "InvalidList" -> InvalidListDocuments
      [] cls = "Bar" -> BarDocuments
      [] cls = "Parent" -> ParentDocuments
      [] cls = "NestedConfig" -> NestedDocuments
      [] cls = "ListConfig" -> ListDocuments
      [] cls = "DictConfig" -> DictDocuments
      [] cls = "ParentList" -> ParentListDocuments
      [] cls = "InvalidListSibling" -> InvalidListSiblingDocuments
      [] OTHER -> {}

\* the Config instances a caller starts from: cls() of the schemas, and the
\* Parent(child=Bar(...)) of test_save_load
Roots ==
    {New(cls) : cls \in {"OmniConfig", "FloorConfig", "InvalidList", "Bar", "Parent",
                         "NestedConfig", "ListConfig", "DictConfig", "ParentList",
                         "InvalidListSibling"}}
        \cup {[New("Parent") EXCEPT !.f.child = [New("Bar") EXCEPT !.f.bar = S("hello")]]}

\* the VirtualConfig objects a caller constructs directly
Slots ==
    {VirtualConfig("test", None, TRUE), VirtualConfig("test", None, FALSE),
     VirtualConfig("test", S("foo"), TRUE), VirtualConfig("test", S("custom"), TRUE),
     VirtualConfig("test", S("tagged"), TRUE),
     VirtualConfig("test", S("invalid"), FALSE),
     VirtualConfig("invalid", S("custom"), FALSE),
     VirtualConfig("invalid", None, TRUE)}

AttrNames == {"foo", "b"}

(***************************************************************************)
(* The calls.                                                              *)
(***************************************************************************)
Op(name, arg, strict, warn_missing) ==
    [name |-> name, arg |-> arg, strict |-> strict, warn_missing |-> warn_missing]

\* the state a call leaves: the object as the call left it, also when it raised
Called(o, done) ==
    /\ op' = o
    /\ pre' = obj
    /\ obj' = done.self
    /\ ret' = IF done.exc = "none" THEN done.v ELSE None
    /\ exc' = done.exc
    /\ log' = done.log
    /\ UNCHANGED <<factories, lookup, constructors, registered>>

\* config.update(document, strict=..., warn_missing=...)
Update ==
    /\ obj.k = "obj"
    /\ \E document \in Documents(obj.cls), mode \in Modes :
        \E done \in {ConfigUpdate(obj, document, mode[1], mode[2], "")} :
            Called(Op("update", document, mode[1], mode[2]), done)
    /\ UNCHANGED discarded

\* virtual_config.update(config_data, strict=..., warn_missing=...)
SlotUpdate ==
    /\ obj.k = "vc"
    /\ \E config_data \in SlotCallDocuments, mode \in Modes :
        \E done \in {VirtualConfigUpdate(obj, config_data, mode[1], mode[2], "")} :
            Called(Op("update", config_data, mode[1], mode[2]), done)
    /\ UNCHANGED discarded

\* virtual_config.update(config_data, ...) with a document that may name a
\* type, keeping what each change of type replaces
SwitchUpdate ==
    /\ obj.k = "vc"
    /\ \E config_data \in SwitchDocuments, mode \in {m \in Modes : ~m[2]} :
        \E done \in {VirtualConfigUpdate(obj, config_data, mode[1], mode[2], "")} :
            /\ Called(Op("update", config_data, mode[1], mode[2]), done)
            /\ discarded' =
                    IF obj.config.k = "obj" /\ done.self.type # obj.type
                    THEN SubSeq(<<[type |-> obj.type, config |-> obj.config]>>
                                    \o discarded,
                                1, IF discarded = <<>> THEN 1 ELSE 2)
                    ELSE discarded

\* config.dump() / virtual_config.dump()
Dump ==
    /\ \E done \in {IF obj.k = "obj" THEN ConfigDump(obj, FALSE)
                     ELSE VirtualConfigDump(obj)} :
        Called(Op("dump", None, TRUE, FALSE), done)
    /\ UNCHANGED discarded

\* config.save(filepath) and then Config.load(type(config), filepath)
SaveLoad ==
    /\ obj.k = "obj"
    /\ \E saved \in {ConfigDump(obj, FALSE)} :
        \E done \in {IF saved.exc # "none" THEN saved
                     ELSE IF ~Representable(saved.v)
                     THEN Out(saved.self, None, saved.log, "RepresenterError")
                     ELSE With(ConfigLoad(obj.cls, saved.v, TRUE, FALSE),
                               LAMBDA loaded :
                                 Out(saved.self, loaded.v, saved.log \o loaded.log,
                                     loaded.exc))} :
            Called(Op("save_load", None, TRUE, FALSE), done)
    /\ UNCHANGED discarded

\* virtual_config.create()
Create ==
    /\ obj.k = "vc"
    /\ \E done \in {VirtualConfigCreate(obj, <<>>)} :
        Called(Op("create", None, TRUE, FALSE), done)
    /\ UNCHANGED discarded

\* virtual_config.<name>
GetAttr ==
    /\ obj.k = "vc"
    /\ \E name \in AttrNames :
        \E done \in {VirtualConfigGetAttr(obj, name)} :
            Called(Op("getattr", S(name), TRUE, FALSE), done)
    /\ UNCHANGED discarded

\* virtual_config = copy.deepcopy(virtual_config): the caller goes on with
\* the copy
Copy ==
    /\ obj.k = "vc"
    /\ \E copied \in {VirtualConfigDeepCopy(obj)} :
        Called(Op("deepcopy", None, TRUE, FALSE), Out(copied, copied, <<>>, "none"))
    /\ UNCHANGED discarded

\* the registry the decorators of the schemas leave, and nothing called yet
Started ==
    /\ LET reg == RegisterAll(Registry(Empty, Empty, Empty), Decorators)
       IN  /\ factories = reg.factories
           /\ lookup = reg.lookup
           /\ constructors = reg.constructors
    /\ registered = Decorators
    /\ discarded = <<>>
    /\ op = Op("init", None, TRUE, FALSE)
    /\ pre = obj
    /\ ret = None
    /\ exc = "none"
    /\ log = <<>>

\* Spec: a Config instance or a VirtualConfig the caller holds, under every
\* call of theirs, with the registry the schemas' decorators left
Init == obj \in Roots \cup Slots /\ Started
Next == Update \/ SlotUpdate \/ Dump \/ SaveLoad \/ Create \/ GetAttr \/ Copy
Spec == Init /\ [][Next]_vars

\* SpecSwitch: a VirtualConfig moved from type to type
InitSwitch ==
    /\ obj \in {VirtualConfig("test", S("foo"), TRUE), VirtualConfig("test", S("bar"), FALSE)}
    /\ Started
SpecSwitch == InitSwitch /\ [][SwitchUpdate]_vars

(***************************************************************************)
(* The registry under registration: SpecRegistry starts from the empty     *)
(* ConfigFactory and makes register calls, with lookups between them.      *)
(***************************************************************************)
RegisterCalls ==
    {Call(config_type, category, name, constructor) :
        config_type \in {"Foo", "Bar"}, category \in {"test"},
        name \in {None, S("foo")}, constructor \in {None, S("make")}}

QueryNames == {S("foo"), S("Foo"), S("Bar"), None}

\* ConfigFactory.register(config_type, category, name, constructor)
RegisterCall ==
    /\ Len(registered) < MaxRegister
    /\ \E call \in RegisterCalls :
        LET reg == Register(Registry(factories, lookup, constructors), call)
        IN  /\ factories' = reg.factories
            /\ lookup' = reg.lookup
            /\ constructors' = reg.constructors
            /\ registered' = Append(registered, call)
            /\ op' = Op("register", None, TRUE, FALSE)
            /\ pre' = obj
            /\ ret' = None
            /\ exc' = "none"
            /\ log' = <<>>
            /\ UNCHANGED <<obj, discarded>>

\* ConfigFactory.get_constructor(category, name)
GetConstructorCall ==
    /\ \E category \in {"test", "other"}, name \in QueryNames :
        Called(Op("get_constructor", L(<<S(category), name>>), TRUE, FALSE),
               [GetConstructor(category, name) EXCEPT !.self = obj])
    /\ UNCHANGED discarded

\* ConfigFactory.create(category, name)
FactoryCreateCall ==
    /\ \E category \in {"test", "other"}, name \in QueryNames :
        Called(Op("factory_create", L(<<S(category), name>>), TRUE, FALSE),
               [ConfigFactoryCreate(category, name) EXCEPT !.self = obj])
    /\ UNCHANGED discarded

InitRegistry ==
    /\ factories = Empty
    /\ lookup = Empty
    /\ constructors = Empty
    /\ registered = <<>>
    /\ discarded = <<>>
    /\ obj \in {VirtualConfig("test", S("foo"), TRUE), VirtualConfig("test", S("foo"), FALSE),
                VirtualConfig("other", S("Bar"), TRUE), VirtualConfig("test", None, FALSE)}
    /\ op = Op("init", None, TRUE, FALSE)
    /\ pre = obj
    /\ ret = None
    /\ exc = "none"
    /\ log = <<>>

NextRegistry == RegisterCall \/ GetConstructorCall \/ FactoryCreateCall \/ Create
SpecRegistry == InitRegistry /\ [][NextRegistry]_vars

(***************************************************************************)
(* A VirtualConfig and its deep copy.  Two VirtualConfig objects may hold  *)
(* the same Config object, and Config.update changes the object it is      *)
(* called on in place, so here the configs live in cells and a             *)
(* VirtualConfig holds the address of its config, 0 for None.  In SpecCopy *)
(* obj is the cells with the original and its copy.                        *)
(***************************************************************************)
Addresses == 1..3

CopyDocuments ==
    Dicts(<<<<"type", {S("foo"), S("bar")}>>, <<"b", {I(1)}>>, <<"d", {I(3)}>>>>)

\* a call on the original or on the copy
OpOn(who, name, arg) ==
    [name |-> name, arg |-> arg, strict |-> TRUE, warn_missing |-> FALSE, on |-> who]

\* the VirtualConfig `ref` as a value: its _config read from its cell
Deref(heap, ref) ==
    [k |-> "vc", category |-> ref.category, required |-> ref.required,
     type |-> ref.type,
     config |-> IF ref.config = 0 THEN None ELSE heap.cells[ref.config]]

\* the addresses the original and the copy hold
Held(heap) ==
    {heap.original.config} \cup
        (IF heap.copied = None THEN {} ELSE {heap.copied.config})

\* the address of a new object
Fresh(heap) ==
    CHOOSE a \in Addresses :
        /\ a \notin Held(heap)
        /\ \A b \in Addresses : b < a => b \in Held(heap)

\* the cells still held by the original or the copy
Collected(heap) ==
    [heap EXCEPT !.cells = [a \in DOMAIN heap.cells \cap Held(heap) |-> heap.cells[a]]]

\* __deepcopy__ that hands its own config to the copy
VirtualConfigDeepCopyShares(self, fresh) ==
    [self EXCEPT !.config = IF self.config # 0 THEN self.config ELSE 0]

\* VirtualConfig.__deepcopy__ on references: the copy holds a new object,
\* at `fresh`, when the original holds one
VirtualConfigDeepCopyRef(self, fresh) ==
    [self EXCEPT !.config = IF self.config # 0 THEN fresh ELSE 0]

\* the heap after an update left the value `after` of `who`:
\* _create binds _config to a new object, Config.update changes the object
\* held where it is
Stored(heap, who, after, created) ==
    LET at == IF after.config = None THEN 0
              ELSE IF created THEN Fresh([heap EXCEPT ![who].config = 0])
              ELSE heap[who].config
    IN  Collected(
            [heap EXCEPT ![who].type = after.type,
                         ![who].config = at,
                         !.cells = IF at = 0 THEN @ ELSE Put(@, at, after.config)])

\* copied = copy.deepcopy(original)
DeepCopy ==
    /\ obj.copied = None
    /\ obj.original.config # 0
    /\ \E copied \in {VirtualConfigDeepCopyRef(obj.original, Fresh(obj))} :
        Called(OpOn("original", "deepcopy", None),
               Out([obj EXCEPT !.copied = copied,
                               !.cells = IF copied.config \in DOMAIN @ \/ copied.config = 0
                                         THEN @
                                         ELSE Put(@, copied.config, @[obj.original.config])],
                   None, <<>>, "none"))
    /\ UNCHANGED discarded

\* original.update(config_data) or copied.update(config_data)
CopyUpdate ==
    /\ \E who \in {"original", "copied"}, config_data \in CopyDocuments :
        /\ obj[who] # None
        /\ LET self == Deref(obj, obj[who])
               typename == IF DictHas(config_data, "type")
                           THEN DictGet(config_data, "type") ELSE self.type
               created == \/ ~Truthy(self.config)
                          \/ typename.k # "none" /\ ~PyEq(self.type, typename)
           IN  \E done \in {VirtualConfigUpdate(self, config_data, TRUE, FALSE, "")} :
                    Called(OpOn(who, "update", config_data),
                           [done EXCEPT !.self = Stored(obj, who, done.self, created)])
    /\ UNCHANGED discarded

InitCopy ==
    /\ obj = [k |-> "heap", cells |-> Empty, copied |-> None,
              original |-> [VirtualConfig("test", S("foo"), TRUE) EXCEPT !.config = 0]]
    /\ Started
SpecCopy == InitCopy /\ [][DeepCopy \/ CopyUpdate]_vars

(***************************************************************************)
(* Properties.                                                             *)
(***************************************************************************)
\* x holds a value of its declared type in every field: scalars of the
\* field's type, nested configs, lists of configs, and VirtualConfig fields
\* resolved to a name registered under their category
RECURSIVE WellTyped(_)
WellTyped(x) ==
    /\ x.k = "obj"
    /\ \A i \in 1..Len(Fields(x.cls)) :
        LET field == Fields(x.cls)[i]
            val == x.f[field.name]
        IN  IF field.virtual_config
            THEN \/ /\ val.k = "vc"
                    /\ Registered(val.category, val.type)
                    /\ val.config.k = "obj"
                    /\ val.config.cls = factories[val.category][val.type.v]
                    /\ WellTyped(val.config)
                 \/ /\ val.k = "obj"
                    /\ GetInfo(val) # <<>>
                    /\ WellTyped(val)
            ELSE CASE field.type.t \in {"int", "float", "str"} -> val.k = field.type.t
                   [] field.type.t = "any" -> val.k \in {"none", "int", "float", "str"}
                   [] field.type.t = "config" -> val.k = "obj" /\ val.cls = field.type.arg /\ WellTyped(val)
                   [] field.type.t = "list" ->
                        /\ val.k = "list"
                        /\ \A j \in 1..Len(val.v) :
                            /\ val.v[j].k = "obj"
                            /\ val.v[j].cls = field.type.arg
                            /\ WellTyped(val.v[j])
                   [] field.type.t = "dict" ->
                        /\ val.k = "dict"
                        /\ \A j \in 1..Len(val.v) :
                            /\ val.v[j][2].k = "obj"
                            /\ val.v[j][2].cls = field.type.arg
                            /\ WellTyped(val.v[j][2])

\* C1: Round-trip.  When x holds values of its declared types, saving x and
\* loading type(x) from what was saved raises nothing and yields a node equal
\* to x.
C1_RoundTrip ==
    (op.name = "save_load" /\ WellTyped(pre)) => (exc = "none" /\ PyEq(ret, obj))

\* the update named a type that is registered and is not the one held
SwitchedType ==
    /\ op.name = "update"
    /\ pre.k = "vc"
    /\ pre.config.k = "obj"
    /\ op.arg.k = "dict"
    /\ DictHas(op.arg, "type")
    /\ Registered(pre.category, DictGet(op.arg, "type"))
    /\ DictGet(op.arg, "type") # pre.type

\* C2: Tag switch discards state.  After an update that names another
\* registered type B, the slot holds an instance of B's class; its fields
\* not given in that update are at B's defaults and those given are what the
\* update makes of them on a fresh B.  Nothing of what the slot held before
\* is left, the values it held under B earlier included.
C2_TagSwitchDiscards ==
    SwitchedType =>
        LET cls == factories[pre.category][DictGet(op.arg, "type").v]
        IN  /\ exc = "none"
            /\ obj.type = DictGet(op.arg, "type")
            /\ obj.config.k = "obj"
            /\ obj.config.cls = cls
            /\ \A name \in FieldNames(cls) \ Keys(op.arg) :
                    obj.config.f[name] = New(cls).f[name]
            /\ obj.config =
                    ConfigUpdate(New(cls), op.arg, op.strict, op.warn_missing, "").self

\* A -> B -> A: the slot is back on the type it held two changes ago, the
\* values it held then were not the defaults, and they are gone
C2_Witness ==
    /\ SwitchedType
    /\ Len(discarded) = 2
    /\ discarded[2].type = obj.type
    /\ discarded[1].type # obj.type
    /\ \E name \in FieldNames(obj.config.cls) \ Keys(op.arg) :
        /\ discarded[2].config.f[name] # New(obj.config.cls).f[name]
        /\ obj.config.f[name] = New(obj.config.cls).f[name]

\* a Config.update that was given a dict
UpdatedByDict == op.name = "update" /\ pre.k = "obj" /\ op.arg.k = "dict"

\* C3: Map merge-on-presence.  After an update that gives a dict for a field
\* declared as a dict of configs, the field holds the entries it held under
\* the keys the update does not name, unchanged, and under every key the
\* update names a config of the declared class: the entry held before (a
\* fresh one for a new key) updated with what the update gives for the key.
C3_MapMerge ==
    (UpdatedByDict /\ exc = "none") =>
        \A i \in 1..Len(Fields(pre.cls)) :
            LET field == Fields(pre.cls)[i]
                old == pre.f[field.name]
                new == obj.f[field.name]
                m == DictGet(op.arg, field.name)
            IN  (field.type.t = "dict" /\ DictHas(op.arg, field.name) /\ m.k = "dict") =>
                    /\ new.k = "dict"
                    /\ Keys(new) = Keys(old) \cup Keys(m)
                    /\ \A key \in Keys(old) \ Keys(m) : DictGet(new, key) = DictGet(old, key)
                    /\ \A key \in Keys(m) :
                        /\ DictGet(new, key).k = "obj"
                        /\ DictGet(new, key).cls = field.type.arg
                        /\ DictGet(new, key) =
                            ConfigUpdate(
                                IF key \in Keys(old) /\ DictGet(old, key).k = "obj"
                                THEN DictGet(old, key) ELSE New(field.type.arg),
                                DictGet(m, key), op.strict, op.warn_missing, "").self

\* the values a list holds, or a dict holds in the order of its keys
InputValues(v) ==
    IF v.k = "list" THEN v.v
    ELSE IF v.k = "dict" THEN [j \in 1..Len(v.v) |-> v.v[j][2]]
    ELSE <<>>

RECURSIVE Keeps(_, _, _)
Keeps(before, after, m) ==
    /\ after.k = "obj"
    /\ after.cls = before.cls
    /\ \A name \in FieldNames(before.cls) \ Keys(m) : after.f[name] = before.f[name]
    /\ \A name \in FieldNames(before.cls) \cap Keys(m) :
        LET held == before.f[name]
            sub == DictGet(m, name)
        IN  /\ (held.k = "obj" /\ sub.k = "dict") => Keeps(held, after.f[name], sub)
            /\ (held.k = "vc" /\ held.config.k = "obj" /\ sub = D(<<>>)) =>
                    after.f[name] = held

\* C5: Absence never changes a field.  An update with a dict leaves every
\* field the dict does not name as it was, whatever the field holds and
\* whatever warn_missing is, in the config and in the configs nested in it;
\* the empty dict leaves a config unchanged, and leaves a VirtualConfig that
\* holds a config with its type and its config.
C5_AbsenceKeeps ==
    /\ UpdatedByDict => Keeps(pre, obj, op.arg)
    /\ (UpdatedByDict /\ op.arg = D(<<>>)) => obj = pre
    /\ (op.name = "update" /\ pre.k = "vc" /\ pre.config.k = "obj" /\ op.arg = D(<<>>)) =>
            exc = "none" /\ obj = pre

\* an update that changes a field it names and leaves alone a field it does
\* not name, which is not at its default
C5_Witness ==
    /\ UpdatedByDict
    /\ op.warn_missing
    /\ \E name \in FieldNames(pre.cls) \ Keys(op.arg) :
        /\ pre.f[name] # New(pre.cls).f[name]
        /\ obj.f[name] = pre.f[name]
    /\ \E name \in FieldNames(pre.cls) \cap Keys(op.arg) : obj.f[name] # pre.f[name]

\* the records of the call about the field `name` of the config updated
RecordsAt(name) == {i \in 1..Len(log) : log[i].at = name}

\* C6: Non-mapping update is a no-op.  Config.update with anything but a
\* dict returns, leaves the config as it was and logs one record.  So does
\* the update of a field that holds a config when the dict gives it
\* anything but a dict: the field is as it was, one record is logged about
\* it, and the other fields the dict names are updated as without it.
C6_NonMappingNoOp ==
    (op.name = "update" /\ pre.k = "obj") =>
        /\ op.arg.k # "dict" =>
                /\ exc = "none"
                /\ obj = pre
                /\ Len(log) = 1
                /\ log[1].msg = "Invalid config data"
        /\ op.arg.k = "dict" =>
                \A name \in FieldNames(pre.cls) \cap Keys(op.arg) :
                    (pre.f[name].k = "obj" /\ DictGet(op.arg, name).k # "dict") =>
                        /\ exc = "none"
                        /\ obj.f[name] = pre.f[name]
                        /\ Cardinality(RecordsAt(name)) = 1
                        /\ \A i \in RecordsAt(name) : log[i].msg = "Invalid config data"
                        /\ \A other \in (FieldNames(pre.cls) \cap Keys(op.arg)) \ {name} :
                            obj.f[other] =
                                UpdateField(Out(pre, None, <<>>, "none"),
                                            FieldOf(pre.cls, other), op.arg, op.strict,
                                            op.warn_missing, "").self.f[other]

\* a NestedConfig whose foo is not at its defaults is given 5 for foo and a
\* new string for other: foo is as it was, other is the new string
C6_Witness ==
    /\ UpdatedByDict
    /\ pre.cls = "NestedConfig"
    /\ DictHas(op.arg, "foo")
    /\ DictGet(op.arg, "foo").k # "dict"
    /\ DictHas(op.arg, "other")
    /\ pre.f.foo # New("Foo")
    /\ obj.f.foo = pre.f.foo
    /\ obj.f.other = DictGet(op.arg, "other")
    /\ obj.f.other # pre.f.other

\* a field _parse_yaml_leaf handles with the parser registered for its type
ParsedLeaf(field) ==
    /\ ~field.virtual_config
    /\ ~field.yaml_converter
    /\ field.type.t \in ParserRegistry
    /\ pre.f[field.name].k \notin {"obj", "list"}

\* what int(), float() and str() make of a value, or their failure
Converted(field, raw) ==
    CASE field.type.t = "int" -> PyInt(raw)
      [] field.type.t = "float" -> PyFloat(raw)
      [] field.type.t = "str" -> Ok(S(PyStr(raw)))

\* C7: Strict vs. lenient leaf coercion.  After an update that returns and
\* gives a field of type int, float or str a value its conversion fails on:
\* with strict, the field is as it was, one record is logged about it and
\* the other such fields the update names hold their converted values;
\* without strict, the field holds the value given and nothing is logged
\* about it.
C7_StrictLenient ==
    (UpdatedByDict /\ exc = "none") =>
        \A i \in 1..Len(Fields(pre.cls)) :
            LET field == Fields(pre.cls)[i]
                raw == DictGet(op.arg, field.name)
            IN  (/\ ParsedLeaf(field)
                 /\ DictHas(op.arg, field.name)
                 /\ ~Converted(field, raw).ok) =>
                    IF op.strict
                    THEN /\ obj.f[field.name] = pre.f[field.name]
                         /\ Cardinality(RecordsAt(field.name)) = 1
                         /\ \A j \in 1..Len(Fields(pre.cls)) :
                                LET other == Fields(pre.cls)[j]
                                    given == DictGet(op.arg, other.name)
                                IN  (/\ ParsedLeaf(other)
                                     /\ DictHas(op.arg, other.name)
                                     /\ Converted(other, given).ok) =>
                                        obj.f[other.name] = Converted(other, given).v
                    ELSE /\ obj.f[field.name] = raw
                         /\ RecordsAt(field.name) = {}

\* Bar is given "test" for bar and "2.0" for d with strict: d is as it was,
\* bar is "test"
C7_Witness ==
    /\ UpdatedByDict
    /\ op.strict
    /\ pre.cls = "Bar"
    /\ DictHas(op.arg, "d")
    /\ DictGet(op.arg, "d") = S("2.0")
    /\ DictHas(op.arg, "bar")
    /\ obj.f.d = pre.f.d
    /\ obj.f.bar = DictGet(op.arg, "bar")
    /\ obj.f.bar # pre.f.bar
    /\ Len(log) = 1

\* the type a VirtualConfig.update would create is registered and has
\* defaults
Resolvable ==
    LET typename == IF op.arg.k = "dict" /\ DictHas(op.arg, "type")
                    THEN DictGet(op.arg, "type") ELSE pre.type
    IN  /\ Registered(pre.category, typename)
        /\ Constructible(factories[pre.category][typename.v])

\* C8: Polymorphic Slot input check.  VirtualConfig.update on a slot whose
\* type can be resolved raises exactly when it is given neither a dict nor
\* None; it then leaves the slot as it was.  Given None it returns and
\* changes no field of the config held.
C8_SlotInputCheck ==
    (op.name = "update" /\ pre.k = "vc" /\ Resolvable) =>
        /\ (exc # "none") <=> (op.arg.k \notin {"dict", "none"})
        /\ op.arg.k \notin {"dict", "none"} => obj = pre
        /\ op.arg.k = "none" =>
                /\ exc = "none"
                /\ pre.config.k = "obj" => obj.config = pre.config

\* the register calls made for (category, name), as indices of `registered`
CallsFor(category, name) ==
    {i \in 1..Len(registered) :
        /\ registered[i].category = category
        /\ name.k = "str"
        /\ name.v = IF Truthy(registered[i].name) THEN registered[i].name.v
                    ELSE registered[i].config_type}

\* the most recent of them
LastCallFor(category, name) ==
    registered[CHOOSE i \in CallsFor(category, name) :
                    \A j \in CallsFor(category, name) : j <= i]

\* C9: create has exactly three outcomes.  When the registration of
\* (category, type) gave a constructor, create returns what the constructor
\* makes of the config the slot holds, creating it first if need be; when
\* none was given (the type registered without one included) it returns
\* None with one record if the slot is not required, and raises ValueError
\* if it is.
C9_CreateOutcomes ==
    (op.name = "create" /\ pre.k = "vc") =>
        IF /\ CallsFor(pre.category, pre.type) # {}
           /\ LastCallFor(pre.category, pre.type).constructor # None
        THEN /\ exc = "none"
             /\ obj.config.k = "obj"
             /\ ret = Constructed(LastCallFor(pre.category, pre.type).constructor,
                                  obj.config, <<>>)
        ELSE IF ~pre.required
        THEN exc = "none" /\ ret = None /\ Len(log) = 1
        ELSE exc = "ValueError"

\* C10: Re-registration replaces.  After any register calls, for a
\* (category, name) that was registered, ConfigFactory.create makes an
\* instance of the class of the most recent call for it, and
\* get_constructor returns the constructor of that call, None if it gave
\* none.
C10_ReRegistration ==
    (/\ op.name \in {"factory_create", "get_constructor"}
     /\ CallsFor(op.arg.v[1].v, op.arg.v[2]) # {}) =>
        LET last == LastCallFor(op.arg.v[1].v, op.arg.v[2])
        IN  /\ exc = "none"
            /\ op.name = "factory_create" => ret = New(last.config_type)
            /\ op.name = "get_constructor" => ret = last.constructor

C12_DeepCopyIndependent ==
    /\ op.name = "deepcopy" =>
            LET original == Deref(obj, obj.original)
                copied == Deref(obj, obj.copied)
            IN  /\ copied.category = original.category
                /\ copied.required = original.required
                /\ copied.type = original.type
                /\ VirtualConfigDump(copied).v = VirtualConfigDump(original).v
    /\ (op.name = "update" /\ pre.k = "heap" /\ pre.copied # None) =>
            LET other == IF op.on = "original" THEN "copied" ELSE "original"
            IN  Deref(obj, obj[other]) = Deref(pre, pre[other])

\* an update changed the config the copy holds, and the original, which
\* holds a config not at its defaults, is as it was
C12_Witness ==
    /\ op.name = "update"
    /\ pre.k = "heap"
    /\ pre.copied # None
    /\ op.on = "copied"
    /\ Deref(obj, obj.copied).config # Deref(pre, pre.copied).config
    /\ Deref(obj, obj.copied).type = Deref(pre, pre.copied).type
    /\ Deref(obj, obj.original) = Deref(pre, pre.original)
    /\ Deref(obj, obj.original).config.k = "obj"
    /\ Deref(obj, obj.original).config # New(Deref(obj, obj.original).config.cls)

\* a required VirtualConfig without a type, holding nothing, is updated with
\* a dict that names no type
UntypedUpdate ==
    /\ op.name = "update"
    /\ pre.k = "vc"
    /\ pre.required
    /\ pre.type = None
    /\ pre.config = None
    /\ op.arg.k = "dict"
    /\ ~DictHas(op.arg, "type")

\* C13: Required slot without a tag.  Such an update logs one error,
\* "Could not get type", and raises ValueError; the VirtualConfig still has
\* no type and holds nothing.
C13_RequiredWithoutTag ==
    UntypedUpdate =>
        /\ exc = "ValueError"
        /\ Len(log) = 1
        /\ log[1].level = "error"
        /\ log[1].msg = "Could not get type"
        /\ obj.type = None
        /\ obj.config = None
        /\ obj = pre

\* the update gave a field, in a category with registered types
C13_Witness ==
    /\ UntypedUpdate
    /\ pre.category \in DOMAIN factories
    /\ Len(op.arg.v) > 0
    /\ exc = "ValueError"
    /\ Len(log) = 1
    /\ obj.config = None

\* C14: Element construction failure in a config list.  When an update
\* gives values for a list of a config class that has no defaults, it
\* returns, logs one record about the field, "Could not init", leaves the
\* field holding the elements made before the failure, which are none, and
\* updates the other fields it names as without the list.
C14_ElementConstructionFails ==
    UpdatedByDict =>
        \A i \in 1..Len(Fields(pre.cls)) :
            LET field == Fields(pre.cls)[i]
            IN  (/\ field.type.t = "list"
                 /\ ~Constructible(field.type.arg)
                 /\ DictHas(op.arg, field.name)
                 /\ Len(InputValues(DictGet(op.arg, field.name))) > 0) =>
                    /\ exc = "none"
                    /\ Cardinality(RecordsAt(field.name)) = 1
                    /\ \A j \in RecordsAt(field.name) : log[j].msg = "Could not init"
                    /\ obj.f[field.name] = L(<<>>)
                    /\ \A other \in (FieldNames(pre.cls) \cap Keys(op.arg)) \ {field.name} :
                        obj.f[other] =
                            UpdateField(Out(pre, None, <<>>, "none"),
                                        FieldOf(pre.cls, other), op.arg, op.strict,
                                        op.warn_missing, "").self.f[other]

\* the list is given two values, the field declared after it a new string:
\* one record, no element, and the string is applied
C14_Witness ==
    /\ UpdatedByDict
    /\ pre.cls = "InvalidListSibling"
    /\ DictHas(op.arg, "children")
    /\ Len(InputValues(DictGet(op.arg, "children"))) = 2
    /\ DictHas(op.arg, "other")
    /\ obj.f.children = L(<<>>)
    /\ obj.f.other = DictGet(op.arg, "other")
    /\ obj.f.other # pre.f.other
    /\ Len(log) = 1
    /\ exc = "none"

\* a VirtualConfig that holds a config has a type, and the config is of the
\* class registered for the type in its category
Consistent(slot) ==
    slot.config.k = "obj" =>
        /\ slot.type.k = "str"
        /\ Registered(slot.category, slot.type)
        /\ slot.config.cls = factories[slot.category][slot.type.v]

\* C15: Slot consistency invariant.  With the registry as the decorators
\* left it, after any updates, dumps, creates, attribute reads and deep
\* copies a VirtualConfig, held by the caller or by a field of a config, is
\* consistent, and its category is the one it was made with.
C15_SlotConsistent ==
    /\ obj.k = "vc" => Consistent(obj) /\ obj.category = pre.category
    /\ obj.k = "obj" =>
            \A name \in FieldNames(obj.cls) :
                obj.f[name].k = "vc" =>
                    /\ Consistent(obj.f[name])
                    /\ pre.f[name].k = "vc" => obj.f[name].category = pre.f[name].category

\* the deep copy of a VirtualConfig that has been moved to another type and
\* holds a config not at its defaults
C15_Witness ==
    /\ op.name = "deepcopy"
    /\ obj.k = "vc"
    /\ obj.config.k = "obj"
    /\ obj.type = S("bar")
    /\ obj.config.cls = "Bar"
    /\ obj.config # New("Bar")

\* the update of a VirtualConfig names a type
NamesType == op.name = "update" /\ pre.k = "vc" /\ op.arg.k = "dict" /\ DictHas(op.arg, "type")

\* the VirtualConfig holds nothing and its type is not registered
Unknown(slot) == slot.config = None /\ ~Registered(slot.category, slot.type)

\* C16: Unknown tag leaves the slot unresolved.  An update naming a type
\* that is not registered in the category returns and leaves the
\* VirtualConfig holding nothing, whatever it held.  From then on an
\* attribute read raises and the VirtualConfig holds nothing after any
\* call, but an update naming a registered type, after which it holds a
\* config of the class registered for that type.
C16_UnknownTag ==
    /\ (NamesType /\ ~Registered(pre.category, DictGet(op.arg, "type"))) =>
            exc = "none" /\ Unknown(obj)
    /\ (pre.k = "vc" /\ Unknown(pre) /\ op.name # "init") =>
            IF NamesType /\ Registered(pre.category, DictGet(op.arg, "type"))
            THEN /\ obj.type = DictGet(op.arg, "type")
                 /\ obj.config.k = "obj"
                 /\ obj.config.cls = factories[pre.category][obj.type.v]
            ELSE /\ Unknown(obj)
                 /\ op.name = "getattr" => exc # "none"

\* a VirtualConfig left without a config by an update naming "nope" is
\* given a registered type and holds a config of its class
C16_Witness ==
    /\ NamesType
    /\ pre.type = S("nope")
    /\ Unknown(pre)
    /\ Registered(pre.category, DictGet(op.arg, "type"))
    /\ obj.config.k = "obj"
    /\ obj.type = DictGet(op.arg, "type")

\* C17: The reserved `type` key is consumed by the slot.  After an update
\* of a VirtualConfig with a dict naming a type, a field named `type` of
\* the config held is what it was before the update, its default when the
\* update made the config anew.
C17_TypeKeyConsumed ==
    (NamesType /\ obj.config.k = "obj" /\ "type" \in FieldNames(obj.config.cls)) =>
        obj.config.f["type"] =
            IF pre.config.k = "obj" /\ pre.type = obj.type
            THEN pre.config.f["type"]
            ELSE New(obj.config.cls).f["type"]

====
